---------------------------- MODULE Spec2Model ----------------------------
(***************************************************************************)
(* A model of mcp_client.py: an interactive client that sends              *)
(* Content-Length framed JSON requests to a child process over its stdin   *)
(* and reads framed JSON responses from its stdout.                        *)
(*                                                                         *)
(* Text is a sequence of characters, each character a string token.  The   *)
(* pipes carry bytes; the pipes are opened with text=True, so what the     *)
(* client writes is UTF-8 encoded and what it reads is UTF-8 decoded with  *)
(* universal newlines.  One character outside ASCII (WideChar, U+00E9) is  *)
(* modelled, with its two UTF-8 bytes.                                     *)
(***************************************************************************)
EXTENDS Integers, Sequences, FiniteSets, TLC

\* ------------------------------------------------------------------ text

WideChar == "U+00E9"
OtherChar == "U+other"
ByteC3 == "0xC3"
ByteA9 == "0xA9"

DigitChars == <<"0", "1", "2", "3", "4", "5", "6", "7", "8", "9">>

IsDigit(c) == \E d \in 1..10 : DigitChars[d] = c

DigitVal(c) == (CHOOSE d \in 1..10 : DigitChars[d] = c) - 1

\* str(n) / the {len(raw)} of an f-string: decimal digits of an integer.
RECURSIVE NatDigits(_)
NatDigits(n) ==
    IF n < 10 THEN <<DigitChars[n + 1]>>
    ELSE NatDigits(n \div 10) \o <<DigitChars[(n % 10) + 1]>>

IntDigits(n) == IF n < 0 THEN <<"-">> \o NatDigits(-n) ELSE NatDigits(n)

\* The characters str.strip() removes.
IsSpace(c) == c \in {" ", "\t", "\n", "\r", "\f"}

RECURSIVE LStrip(_)
LStrip(s) == IF s # <<>> /\ IsSpace(Head(s)) THEN LStrip(Tail(s)) ELSE s

RECURSIVE RStrip(_)
RStrip(s) ==
    IF s # <<>> /\ IsSpace(s[Len(s)]) THEN RStrip(SubSeq(s, 1, Len(s) - 1)) ELSE s

Strip(s) == RStrip(LStrip(s))

StartsWith(s, p) == Len(s) >= Len(p) /\ SubSeq(s, 1, Len(p)) = p

LowerChar(c) ==
    CASE c = "E" -> "e" [] c = "X" -> "x" [] c = "I" -> "i" [] c = "T" -> "t"
      [] c = "Q" -> "q" [] c = "U" -> "u" [] c = "C" -> "c" [] c = "L" -> "l"
      [] OTHER -> c

\* A comparison that keeps the letters' case.
LowerNot(s) == s

\* str.lower(), for the letters the inputs have.
Lower(s) == [i \in 1..Len(s) |-> LowerChar(s[i])]

\* The pipe's write side (text=True, POSIX): UTF-8 encoding, "\n" written as is.
RECURSIVE TextEncode(_)
TextEncode(s) ==
    IF s = <<>> THEN <<>>
    ELSE (IF Head(s) = WideChar THEN <<ByteC3, ByteA9>> ELSE <<Head(s)>>)
         \o TextEncode(Tail(s))

\* The pipe's read side (text=True): UTF-8 decoding, then universal newlines:
\* "\r\n" and a lone "\r" are both read as "\n".  The bytes the server writes
\* are valid UTF-8.
\* A byte that continues the character begun by the byte before it.
IsContinuation(b, i) ==
    i > 1 /\ \/ (b[i] = ByteA9 /\ b[i - 1] = ByteC3)
             \/ (b[i] = "\n" /\ b[i - 1] = "\r")

DecodedAt(b, i) ==
    IF IsContinuation(b, i) THEN "CONT"
    ELSE IF b[i] = ByteC3 /\ i < Len(b) /\ b[i + 1] = ByteA9 THEN WideChar
    ELSE IF b[i] = "\r" THEN "\n"
    ELSE b[i]

IsChar(c) == c # "CONT"

TextDecode(b) == SelectSeq([i \in 1..Len(b) |-> DecodedAt(b, i)], IsChar)

\* ------------------------------------------------------------------ JSON

JInt(n) == [k |-> "int", n |-> n]
JStr(s) == [k |-> "str", s |-> s]
JArr(a) == [k |-> "arr", a |-> a]
JObj(o) == [k |-> "obj", o |-> o]
JTrue == [k |-> "true"]
JFalse == [k |-> "false"]
JNull == [k |-> "null"]

\* A json.dumps that leaves characters outside ASCII as they are
\* (ensure_ascii=False).
EscapeCharRaw(c) ==
    CASE c = "\"" -> <<"\\", "\"">>
      [] c = "\\" -> <<"\\", "\\">>
      [] OTHER -> <<c>>

\* json.dumps of a str with ensure_ascii=True (the default).
EscapeChar(c) ==
    CASE c = "\"" -> <<"\\", "\"">>
      [] c = "\\" -> <<"\\", "\\">>
      [] c = "\n" -> <<"\\", "n">>
      [] c = "\r" -> <<"\\", "r">>
      [] c = "\t" -> <<"\\", "t">>
      [] c = WideChar -> <<"\\", "u", "0", "0", "e", "9">>
      [] OTHER -> <<c>>

RECURSIVE EscapeStr(_)
EscapeStr(s) == IF s = <<>> THEN <<>> ELSE EscapeChar(Head(s)) \o EscapeStr(Tail(s))

DumpStr(s) == <<"\"">> \o EscapeStr(s) \o <<"\"">>

\* json.dumps(value) with the default separators (", " and ": ").
RECURSIVE Dumps(_)
RECURSIVE DumpElems(_)
RECURSIVE DumpMembers(_)
Dumps(v) ==
    CASE v.k = "int" -> IntDigits(v.n)
      [] v.k = "str" -> DumpStr(v.s)
      [] v.k = "arr" -> <<"[">> \o DumpElems(v.a) \o <<"]">>
      [] v.k = "obj" -> <<"{">> \o DumpMembers(v.o) \o <<"}">>
      [] v.k = "true" -> <<"t", "r", "u", "e">>
      [] v.k = "false" -> <<"f", "a", "l", "s", "e">>
      [] OTHER -> <<"n", "u", "l", "l">>

DumpElems(a) ==
    IF a = <<>> THEN <<>>
    ELSE Dumps(Head(a))
         \o (IF Len(a) > 1 THEN <<",", " ">> \o DumpElems(Tail(a)) ELSE <<>>)

DumpMembers(o) ==
    IF o = <<>> THEN <<>>
    ELSE DumpStr(Head(o)[1]) \o <<":", " ">> \o Dumps(Head(o)[2])
         \o (IF Len(o) > 1 THEN <<",", " ">> \o DumpMembers(Tail(o)) ELSE <<>>)

\* ---- json.loads: the decoder.  A parse returns [ok, v, i]: i is the index
\* after the value.  Numbers are integers (no fraction or exponent occurs in the
\* texts of this model).
Fail == [ok |-> FALSE]
Ok(v, i) == [ok |-> TRUE, v |-> v, i |-> i]

IsWs(c) == c \in {" ", "\t", "\n", "\r"}

RECURSIVE SkipWs(_, _)
SkipWs(s, i) == IF i <= Len(s) /\ IsWs(s[i]) THEN SkipWs(s, i + 1) ELSE i

At(s, i) == IF i <= Len(s) THEN s[i] ELSE "EOF"

IsHex(c) == IsDigit(c) \/ c \in {"a", "b", "c", "d", "e", "f", "A", "B", "C", "D", "E", "F"}

UnescapeU(h) == IF Lower(h) = <<"0", "0", "e", "9">> THEN WideChar ELSE OtherChar

SimpleEscape(e) ==
    CASE e = "n" -> "\n" [] e = "r" -> "\r" [] e = "t" -> "\t"
      [] e = "b" -> "U+0008" [] e = "f" -> "\f" [] OTHER -> e

\* py_scanstring, strict: s[i] is the character after the opening quote.
RECURSIVE ScanString(_, _, _)
ScanString(s, i, acc) ==
    IF i > Len(s) THEN Fail
    ELSE IF s[i] = "\"" THEN Ok(acc, i + 1)
    ELSE IF s[i] \in {"\n", "\r", "\t"} THEN Fail
    ELSE IF s[i] # "\\" THEN ScanString(s, i + 1, Append(acc, s[i]))
    ELSE IF At(s, i + 1) \in {"\"", "\\", "/", "b", "f", "n", "r", "t"}
         THEN ScanString(s, i + 2, Append(acc, SimpleEscape(s[i + 1])))
    ELSE IF At(s, i + 1) = "u" /\ i + 5 <= Len(s)
            /\ \A j \in (i + 2)..(i + 5) : IsHex(s[j])
         THEN ScanString(s, i + 6, Append(acc, UnescapeU(SubSeq(s, i + 2, i + 5))))
    ELSE Fail

RECURSIVE ScanDigits(_, _, _)
ScanDigits(s, i, n) ==
    IF i <= Len(s) /\ IsDigit(s[i]) THEN ScanDigits(s, i + 1, 10 * n + DigitVal(s[i]))
    ELSE [n |-> n, i |-> i]

\* NUMBER_RE: -?(0|[1-9]\d*)
ScanNumber(s, i) ==
    LET neg == At(s, i) = "-"
        j == IF neg THEN i + 1 ELSE i
    IN  IF ~IsDigit(At(s, j)) THEN Fail
        ELSE IF s[j] = "0" THEN Ok(JInt(0), j + 1)
        ELSE LET d == ScanDigits(s, j, 0)
             IN  Ok(JInt(IF neg THEN -d.n ELSE d.n), d.i)

\* dict(pairs): a repeated key keeps its first position and its last value.
RECURSIVE ObjSet(_, _, _)
ObjSet(o, key, v) ==
    IF o = <<>> THEN <<<<key, v>>>>
    ELSE IF Head(o)[1] = key THEN <<<<key, v>>>> \o Tail(o)
    ELSE <<Head(o)>> \o ObjSet(Tail(o), key, v)

RECURSIVE ScanOnce(_, _)
RECURSIVE ScanElems(_, _, _)
RECURSIVE ScanMembers(_, _, _)
\* scan_once: s[i] is the first character of a value (no whitespace skipped).
ScanOnce(s, i) ==
    LET c == At(s, i)
    IN  CASE c = "\"" ->
               LET r == ScanString(s, i + 1, <<>>)
               IN  IF r.ok THEN Ok(JStr(r.v), r.i) ELSE Fail
          [] c = "{" ->
               LET j == SkipWs(s, i + 1)
               IN  IF At(s, j) = "}" THEN Ok(JObj(<<>>), j + 1)
                   ELSE ScanMembers(s, j, <<>>)
          [] c = "[" ->
               LET j == SkipWs(s, i + 1)
               IN  IF At(s, j) = "]" THEN Ok(JArr(<<>>), j + 1)
                   ELSE ScanElems(s, j, <<>>)
          [] c = "t" ->
               IF i + 3 <= Len(s) /\ SubSeq(s, i, i + 3) = <<"t", "r", "u", "e">>
               THEN Ok(JTrue, i + 4) ELSE Fail
          [] c = "f" ->
               IF i + 4 <= Len(s) /\ SubSeq(s, i, i + 4) = <<"f", "a", "l", "s", "e">>
               THEN Ok(JFalse, i + 5) ELSE Fail
          [] c = "n" ->
               IF i + 3 <= Len(s) /\ SubSeq(s, i, i + 3) = <<"n", "u", "l", "l">>
               THEN Ok(JNull, i + 4) ELSE Fail
          [] OTHER -> ScanNumber(s, i)

\* JSONArray: s[i] is the first character of an element.
ScanElems(s, i, acc) ==
    LET r == ScanOnce(s, i)
    IN  IF ~r.ok THEN Fail
        ELSE LET j == SkipWs(s, r.i)
             IN  IF At(s, j) = "]" THEN Ok(JArr(Append(acc, r.v)), j + 1)
                 ELSE IF At(s, j) = ","
                      THEN ScanElems(s, SkipWs(s, j + 1), Append(acc, r.v))
                 ELSE Fail

\* JSONObject: s[i] is the opening quote of a key.
ScanMembers(s, i, acc) ==
    IF At(s, i) # "\"" THEN Fail
    ELSE LET key == ScanString(s, i + 1, <<>>)
         IN  IF ~key.ok THEN Fail
             ELSE LET c == SkipWs(s, key.i)
                  IN  IF At(s, c) # ":" THEN Fail
                      ELSE LET r == ScanOnce(s, SkipWs(s, c + 1))
                           IN  IF ~r.ok THEN Fail
                               ELSE LET j == SkipWs(s, r.i)
                                        o == ObjSet(acc, key.v, r.v)
                                    IN  IF At(s, j) = "}" THEN Ok(JObj(o), j + 1)
                                        ELSE IF At(s, j) = ","
                                             THEN ScanMembers(s, SkipWs(s, j + 1), o)
                                        ELSE Fail

\* json.loads(s): [ok |-> TRUE, v |-> value], or [ok |-> FALSE] where the code
\* raises json.JSONDecodeError (leading and trailing whitespace allowed, anything
\* else after the value is "Extra data").
Loads(s) ==
    LET r == ScanOnce(s, SkipWs(s, 1))
    IN  IF r.ok /\ SkipWs(s, r.i) = Len(s) + 1 THEN [ok |-> TRUE, v |-> r.v]
        ELSE Fail

\* --------------------------------------------------------------- bounds

\* The session makes at most MaxCalls calls (req_id stays <= MaxCalls + 1).
MaxCalls == 2
\* The child process writes at most MaxServerWrites pieces to its stdout.
MaxServerWrites == 2
\* Parameter inputs rejected as invalid JSON that the model follows.
MaxInvalid == 1
\* Iterations of the header loop on an empty read that the model follows.
MaxSpin == 2

\* ------------------------------------------------------------ the client

VARIABLES
    pc,              \* where the client is: "method", "params", "send", "hdr",
                     \* "body", "done" (loop left, child terminated), "crashed"
    method,          \* the stripped method name read at "Method> "
    params_str,      \* the stripped text read at "Params as JSON> "
    req_id,          \* the module-level counter
    request,         \* the request dict built by the loop
    tx,              \* the bytes the latest flush delivered to the child's stdin
    flushes,         \* flushes that delivered data
    sentIds,         \* the ids of the request frames the child has received
    txbuf,           \* written to proc.stdin and not yet flushed
    rx,              \* the child's stdout as the text stream holds it: decoded,
                     \* not yet read by the client
    closed,          \* the child has closed its stdout (end of stream)
    srvWrites,       \* pieces the child has written
    repertoire,      \* what the child may write in one go
    consumed,        \* the text the current call's reads have returned so far
    content_length,  \* send_request's local: None, or <<n>>
    spins,           \* empty reads the header loop has swallowed in this call
    body,            \* send_request's local: the text read(content_length) gave
    resps,           \* the values send_request has returned, in order
    err,             \* the exception that ended the process, or "none"
    errDoc,          \* the document a JSONDecodeError carries (its .doc)
    warned,          \* "Invalid JSON, try again." messages printed
    terminated       \* proc.terminate() was called

vars == <<pc, method, params_str, req_id, request, tx, flushes, sentIds, txbuf,
          rx, closed, srvWrites, repertoire, consumed,
          content_length, spins, body, resps, err, errDoc, warned, terminated>>

None == <<>>
Some(x) == <<x>>

ContentLengthName ==
    <<"C", "o", "n", "t", "e", "n", "t", "-", "L", "e", "n", "g", "t", "h">>
ContentLengthPrefix == ContentLengthName \o <<":", " ">>
CRLF == <<"\r", "\n">>

\* f"Content-Length: {len(raw)}\r\n\r\n"
Header(raw) == ContentLengthPrefix \o NatDigits(Len(raw)) \o CRLF \o CRLF

\* json.dumps(request), and header + raw as proc.stdin.write receives it.
Raw(req) == Dumps(req)
Encode(req) == Header(Raw(req)) \o Raw(req)

\* proc.stdin.write(data): the text is encoded into the stream's buffer.
Write(buf, data) == buf \o TextEncode(data)

\* A send_request without the flush: the frame stays in the buffer.
NoFlush(buf) == [sent |-> <<>>, kept |-> buf]

\* proc.stdin.flush(): everything buffered reaches the child.
Flush(buf) == [sent |-> buf, kept |-> <<>>]

\* {"id": req_id, "method": method, "params": params}
MakeRequest(id, m, params) ==
    JObj(<< <<<<"i", "d">>, JInt(id)>>,
            <<<<"m", "e", "t", "h", "o", "d">>, JStr(m)>>,
            <<<<"p", "a", "r", "a", "m", "s">>, params>> >>)

\* A loop that forgets the increment.
NextReqIdStuck(id) == id

\* A loop that takes two ids for a request.
NextReqIdSkip(id) == id + 2

\* req_id += 1
NextReqId(id) == id + 1

\* json.loads(params_str) with no default for the empty string.
ParseParamsStrict(text) == Loads(text)

\* json.loads(params_str) if params_str else {}
ParseParams(text) ==
    IF text = <<>> THEN [ok |-> TRUE, v |-> JObj(<<>>)] ELSE Loads(text)

ExitWords == {<<"e", "x", "i", "t">>, <<"q", "u", "i", "t">>}

\* What the user types at "Method> " and at "Params as JSON> ".
MethodInputs ==
    { <<" ", WideChar, "\"">>, <<"e", "x", "i", "t">>, <<"Q", "u", "i", "t", " ">>,
      <<"E", "X", "I", "T">> }
ParamInputs ==
    { <<>>, <<"{", "\"", "a", "\"", ":", "[", "1", "]", "}">>, <<"x">> }

\* The text not yet consumed.
Rest == rx

\* s without its first n characters.
Drop(s, n) == SubSeq(s, n + 1, Len(s))

\* Index of the first "\n" of s, or 0.
NewlineAt(s) ==
    IF \E i \in 1..Len(s) : s[i] = "\n"
    THEN CHOOSE i \in 1..Len(s) : s[i] = "\n" /\ \A j \in 1..(i - 1) : s[j] # "\n"
    ELSE 0

\* proc.stdout.readline() can return: a whole line is there, or the stream ended.
CanReadLine == NewlineAt(Rest) > 0 \/ closed

\* proc.stdout.readline(): through the first "\n", or what is left at end of
\* stream ("" when nothing is).
ReadLine == IF NewlineAt(Rest) > 0 THEN SubSeq(Rest, 1, NewlineAt(Rest)) ELSE Rest

\* The pattern with (\d) for (\d+): only the first digit is taken.
MatchContentLengthOneDigit(line) ==
    IF StartsWith(line, ContentLengthPrefix)
       /\ IsDigit(At(line, Len(ContentLengthPrefix) + 1))
    THEN Some(DigitVal(line[Len(ContentLengthPrefix) + 1]))
    ELSE None

\* re.match(r"Content-Length: (\d+)", line): None, or the int of the digits.
MatchContentLength(line) ==
    IF StartsWith(line, ContentLengthPrefix)
       /\ IsDigit(At(line, Len(ContentLengthPrefix) + 1))
    THEN Some(ScanDigits(line, Len(ContentLengthPrefix) + 1, 0).n)
    ELSE None

\* Lines 29-32 without `if m:`: a Content-Length... line that does not match
\* clears the length.
UpdateLengthUnguarded(cl, line) ==
    IF StartsWith(line, ContentLengthName) THEN MatchContentLength(line) ELSE cl

\* Lines 29-32 with the first match kept: a length already stored is not
\* overwritten.
UpdateLengthFirst(cl, line) ==
    IF cl # None THEN cl
    ELSE IF StartsWith(line, ContentLengthName) /\ MatchContentLength(line) # None
    THEN MatchContentLength(line)
    ELSE cl

\* Lines 29-32: the value of content_length after one header line.
UpdateLength(cl, line) ==
    IF StartsWith(line, ContentLengthName) /\ MatchContentLength(line) # None
    THEN MatchContentLength(line)
    ELSE cl

\* proc.stdout.read(n) can return: n characters are there, or the stream ended;
\* read(None) returns at end of stream only.
CanReadBody(cl) == closed \/ (cl # None /\ Len(Rest) >= cl[1])

\* proc.stdout.read(content_length + 1)
ReadBodyTextOneMore(cl) ==
    IF cl = None \/ Len(Rest) < cl[1] + 1 THEN Rest ELSE SubSeq(Rest, 1, cl[1] + 1)

\* proc.stdout.read(content_length)
ReadBodyText(cl) ==
    IF cl = None \/ Len(Rest) < cl[1] THEN Rest ELSE SubSeq(Rest, 1, cl[1])

\* ---- The child's view of its stdin: frames in the wire format
\* "Content-Length: <digits>\r\n\r\n" followed by that many bytes.
RECURSIVE WireFrames(_)
WireFrames(b) ==
    IF b = <<>> THEN [bodies |-> <<>>, junk |-> <<>>]
    ELSE IF ~(StartsWith(b, ContentLengthPrefix)
              /\ IsDigit(At(b, Len(ContentLengthPrefix) + 1)))
         THEN [bodies |-> <<>>, junk |-> b]
    ELSE LET d == ScanDigits(b, Len(ContentLengthPrefix) + 1, 0)
             first == d.i + 4
         IN  IF Len(b) >= d.i + 3 + d.n /\ SubSeq(b, d.i, d.i + 3) = CRLF \o CRLF
             THEN LET more == WireFrames(Drop(b, d.i + 3 + d.n))
                  IN  [bodies |-> <<SubSeq(b, first, d.i + 3 + d.n)>> \o more.bodies,
                       junk |-> more.junk]
             ELSE [bodies |-> <<>>, junk |-> b]

\* The value of a key of a JSON object, JNull when it has none.
ObjGet(v, key) ==
    IF v.k = "obj" /\ \E i \in 1..Len(v.o) : v.o[i][1] = key
    THEN v.o[CHOOSE i \in 1..Len(v.o) : v.o[i][1] = key][2]
    ELSE JNull

\* The "id" of a request body as the child parses it, 0 when it has none.
WireId(bodyBytes) ==
    LET r == Loads(TextDecode(bodyBytes))
    IN  IF r.ok /\ ObjGet(r.v, <<"i", "d">>).k = "int"
        THEN ObjGet(r.v, <<"i", "d">>).n ELSE 0

WireIds(b) == LET f == WireFrames(b).bodies IN [i \in 1..Len(f) |-> WireId(f[i])]

\* The state when the loop is entered (line 44), whatever the child may write.
Start ==
    /\ pc = "method"
    /\ method = <<>>
    /\ params_str = <<>>
    /\ req_id = 1
    /\ request = JNull
    /\ tx = <<>>
    /\ flushes = 0
    /\ sentIds = <<>>
    /\ txbuf = <<>>
    /\ rx = <<>>
    /\ closed = FALSE
    /\ srvWrites = 0
    /\ consumed = <<>>
    /\ content_length = None
    /\ spins = 0
    /\ body = <<>>
    /\ resps = <<>>
    /\ err = "none"
    /\ errDoc = <<>>
    /\ warned = 0
    /\ terminated = FALSE

clientIO == <<tx, flushes, sentIds, txbuf>>
serverIO == <<closed, srvWrites, repertoire>>
decodeVars == <<consumed, content_length, spins, body>>
outcome == <<resps, err, errDoc>>

\* Lines 45-47 and 62: the method prompt; "exit"/"quit" leaves the loop and
\* terminates the child.
ReadMethod(input) ==
    /\ pc = "method"
    /\ LET m == Strip(input)
       IN  IF Lower(m) \in ExitWords
           THEN /\ pc' = "done"
                /\ terminated' = TRUE
           ELSE /\ req_id <= MaxCalls
                /\ pc' = "params"
                /\ UNCHANGED terminated
    /\ method' = Strip(input)
    /\ UNCHANGED <<params_str, req_id, request, clientIO, rx, serverIO,
                   decodeVars, outcome, warned>>

\* Lines 49-57: the parameter prompt; invalid JSON is reported and the loop
\* continues, otherwise the request is built and the counter incremented.
ReadParams(input) ==
    /\ pc = "params"
    /\ params_str' = Strip(input)
    /\ LET p == ParseParams(Strip(input))
       IN  IF p.ok
           THEN /\ request' = MakeRequest(req_id, method, p.v)
                /\ req_id' = NextReqId(req_id)
                /\ pc' = "send"
                /\ UNCHANGED warned
           ELSE /\ warned < MaxInvalid
                /\ warned' = warned + 1
                /\ pc' = "method"
                /\ UNCHANGED <<request, req_id>>
    /\ UNCHANGED <<method, clientIO, rx, serverIO, decodeVars, outcome, terminated>>

\* A length that outlives the call (a module-level content_length).
StaleLength(cl) == cl

\* Line 22: content_length = None, whatever an earlier call had stored.
FreshLength(cl) == None

\* Lines 16-22: send_request writes and flushes the frame, then starts reading
\* with no length recorded.
SendRequest ==
    /\ pc = "send"
    /\ LET f == Flush(Write(txbuf, Encode(request)))
       IN  /\ tx' = IF f.sent = <<>> THEN tx ELSE f.sent
           /\ flushes' = IF f.sent = <<>> THEN flushes ELSE flushes + 1
           /\ sentIds' = sentIds \o WireIds(f.sent)
           /\ txbuf' = f.kept
    /\ content_length' = FreshLength(content_length)
    /\ spins' = 0
    /\ consumed' = <<>>
    /\ pc' = "hdr"
    /\ UNCHANGED <<method, params_str, req_id, request, rx, serverIO, body, outcome, warned,
                   terminated>>

\* Lines 23-34: one iteration of the header loop.
ReadHeaderLine ==
    /\ pc = "hdr"
    /\ CanReadLine
    /\ LET line == ReadLine
       IN  IF line = <<>>
           THEN /\ spins < MaxSpin
                /\ spins' = spins + 1
                /\ UNCHANGED <<pc, rx, consumed, content_length>>
           ELSE /\ rx' = Drop(rx, Len(line))
                /\ consumed' = consumed \o line
                /\ content_length' = UpdateLength(content_length, Strip(line))
                /\ pc' = IF Strip(line) = <<>> THEN "body" ELSE "hdr"
                /\ UNCHANGED spins
    /\ UNCHANGED <<method, params_str, req_id, request, clientIO, serverIO, body, outcome,
                   warned, terminated>>

\* Lines 37-38 and 59-60: the body is read and parsed; the value is returned to
\* the loop and printed, or json.loads raises and nothing catches it.
ReadBody ==
    /\ pc = "body"
    /\ CanReadBody(content_length)
    /\ LET b == ReadBodyText(content_length)
           r == Loads(b)
       IN  /\ body' = b
           /\ rx' = Drop(rx, Len(b))
           /\ consumed' = consumed \o b
           /\ IF r.ok
              THEN /\ resps' = Append(resps, r.v)
                   /\ pc' = "method"
                   /\ UNCHANGED <<err, errDoc>>
              ELSE /\ err' = "JSONDecodeError"
                   /\ errDoc' = b
                   /\ pc' = "crashed"
                   /\ UNCHANGED resps
    /\ UNCHANGED <<method, params_str, req_id, request, clientIO, serverIO, content_length,
                   spins, warned, terminated>>

\* ------------------------------------------------------- the child process

\* A frame as the wire format has it: Content-Length is the body's byte length.
FrameOf(bodyBytes) ==
    ContentLengthPrefix \o NatDigits(Len(bodyBytes)) \o CRLF \o CRLF \o bodyBytes

WideBody == TextEncode(<<"\"", WideChar, "\"">>)
OpenWideBody == TextEncode(<<"\"", WideChar>>)

\* What the child may write in one go: whole frames (two with JSON bodies, two
\* with bodies that are not JSON), a header block alone, body fragments, a blank
\* line, a header the client does not know.
Pieces ==
    { FrameOf(<<"{", "}">>),
      FrameOf(WideBody),
      FrameOf(<<"{", "x">>),
      FrameOf(OpenWideBody),
      ContentLengthPrefix \o <<"2">> \o CRLF \o CRLF,
      <<"1">>,
      <<"\"">>,
      CRLF,
      <<"X", ":", " ", "1">> \o CRLF }

\* Header lines and bodies of the replies of a second child.
UnknownLine == <<"X", ":", " ", "1">> \o CRLF
LengthyLine == ContentLengthName \o <<"y", ":", " ", "9">> \o CRLF
LengthLine(n) == ContentLengthPrefix \o NatDigits(n) \o CRLF
EmptyObject == <<"{", "}">>
ResultBody == <<"{", "\"", "r", "e", "s", "u", "l", "t", "\"", ":", "[", "]", "}">>
IdBody == <<"{", "\"", "i", "d", "\"", ":", "1", "}">>
WideIdBody ==
    TextEncode(<<"{", "\"", "i", "d", "\"", ":", "1", ",",
                 "\"", "r", "\"", ":", "\"", WideChar, "\"", "}">>)

\* A frame whose header block has the lines `before` ahead of the Content-Length
\* line and the lines `after` behind it.
PaddedFrame(before, after, bodyBytes) ==
    before \o LengthLine(Len(bodyBytes)) \o after \o CRLF \o bodyBytes

\* The reply of spec 8, scenario 2: the header says 14, the body has 13 bytes.
ScenarioReply == LengthLine(14) \o CRLF \o ResultBody

\* A header block with two Content-Length lines, then a two-byte body.
TwoLengthsReply == LengthLine(4) \o LengthLine(2) \o CRLF \o EmptyObject

\* What the second child may write in one go: frames with extra header lines,
\* with two lengths, with and without an id, and single header lines.
FramePieces ==
    { FrameOf(WideIdBody),
      PaddedFrame(UnknownLine, LengthyLine, EmptyObject),
      ScenarioReply,
      FrameOf(ResultBody),
      TwoLengthsReply,
      FrameOf(IdBody),
      UnknownLine,
      CRLF,
      LengthLine(1) }

ServerWrite(piece) ==
    /\ ~closed /\ ~terminated
    /\ srvWrites < MaxServerWrites
    /\ rx' = rx \o TextDecode(piece)
    /\ srvWrites' = srvWrites + 1
    /\ UNCHANGED <<pc, method, params_str, req_id, request, clientIO, closed,
                   repertoire, decodeVars, outcome, warned, terminated>>

\* The child answers with the bytes of the request it received last.
ServerEcho ==
    /\ tx # <<>>
    /\ ServerWrite(tx)

\* The child closes its stdout: the client's reads reach end of stream.
ServerClose ==
    /\ ~closed
    /\ closed' = TRUE
    /\ UNCHANGED <<pc, method, params_str, req_id, request, clientIO, rx,
                   srvWrites, repertoire, decodeVars, outcome, warned, terminated>>

Next ==
    \/ \E input \in MethodInputs : ReadMethod(input)
    \/ \E input \in ParamInputs : ReadParams(input)
    \/ SendRequest
    \/ ReadHeaderLine
    \/ ReadBody
    \/ \E piece \in repertoire : ServerWrite(piece)
    \/ ServerEcho
    \/ ServerClose

Init == Start /\ repertoire = Pieces

Spec == Init /\ [][Next]_vars

InitFrames == Start /\ repertoire = FramePieces

SpecFrames == InitFrames /\ [][Next]_vars

\* ------------------------------------------------------------- the claims

\* A call has been made and has ended: its value was returned or it raised.
CallEnded == flushes > 0 /\ pc \in {"method", "params", "done", "crashed"}
\* A call is under way (or has raised): the request is the one last written.
InCall == pc \in {"hdr", "body", "crashed"}
\* The text the decode of the current (or last) call had before it.
Faced == consumed \o rx
LastResp == resps[Len(resps)]

JsonBodies == { <<"{", "}">>, WideBody }
NonJsonBodies == { <<"{", "x">>, OpenWideBody }

\* C1: when a header read returns no data because the stream has ended before
\* any blank line, decode fails (TransportClosedError) instead of reading again.
C1_EofFailsDecode == spins > 0 => pc = "crashed"

\* C2: a header block that ends without a Content-Length line makes decode fail
\* (MissingLengthError); decode does not go on to wait for a body.
C2_MissingLengthFails ==
    (flushes > 0 /\ pc # "hdr" /\ content_length = None) => pc = "crashed"

\* C3: when the stream closes after fewer body bytes than Content-Length
\* declared, decode fails (TruncatedBodyError); it returns no value parsed from
\* the bytes it did get.
C3_TruncatedBodyFails ==
    (CallEnded /\ content_length # None /\ Len(TextEncode(body)) < content_length[1])
        => pc = "crashed"

\* C4: for a frame that declares its body's byte length N, decode consumes the
\* frame and nothing after it, whatever follows in the stream, and returns the
\* frame's body; so of two frames back to back the first decode leaves the
\* second untouched.
C4_ExactLength ==
    \A b \in JsonBodies :
        (CallEnded /\ StartsWith(Faced, TextDecode(FrameOf(b))))
            => /\ pc # "crashed"
               /\ consumed = TextDecode(FrameOf(b))
               /\ LastResp = Loads(TextDecode(b)).v

\* C5: what a call writes to the transport is exactly one header line
\* "Content-Length: N", "\r\n", a blank "\r\n" and the JSON body of the request,
\* N being the byte length of that body, with nothing after the body.
C5_EncodeFormat ==
    InCall =>
        LET w == WireFrames(tx)
        IN  /\ w.junk = <<>>
            /\ Len(w.bodies) = 1
            /\ tx = FrameOf(w.bodies[1])
            /\ Loads(TextDecode(w.bodies[1])) = [ok |-> TRUE, v |-> request]

C5_Witness ==
    /\ pc = "hdr" /\ flushes = 2
    /\ ObjGet(request, <<"p", "a", "r", "a", "m", "s">>) # JObj(<<>>)
    /\ ObjGet(request, <<"m", "e", "t", "h", "o", "d">>) = JStr(<<WideChar, "\"">>)

\* C6: round trip: when the stream a decode reads begins with the bytes encode
\* wrote for the request, decode returns a value equal to the request and has
\* consumed that frame and nothing more.
C6_RoundTrip ==
    (CallEnded /\ StartsWith(Faced, TextDecode(tx)))
        => /\ pc # "crashed"
           /\ consumed = TextDecode(tx)
           /\ LastResp = request

C6_Witness ==
    /\ CallEnded /\ flushes = 2 /\ Len(resps) = 2
    /\ consumed = TextDecode(tx)
    /\ LastResp = request

\* C7: the ids of the requests written to the transport are strictly
\* increasing, the first is 1, and no id is used twice.
C7_IdMonotonic ==
    /\ sentIds # <<>> => sentIds[1] = 1
    /\ \A i, j \in 1..Len(sentIds) : i < j => sentIds[i] < sentIds[j]

C7_Witness == Len(sentIds) = 2 /\ warned > 0 /\ pc = "hdr"

\* C8: a call that fails with a protocol or transport error comes back to the
\* loop as a failed result: the client process never ends on the error.
C8_ErrorsSurface == pc # "crashed"

\* C9: each call writes and flushes exactly one frame before it reads, and at
\* most one request is outstanding: a request is written only when every
\* earlier one has been answered.
C9_OneInFlight ==
    /\ Len(sentIds) = flushes
    /\ pc \in {"hdr", "body", "crashed"} =>
          /\ flushes = Len(resps) + 1
          /\ txbuf = <<>>
          /\ WireFrames(tx).junk = <<>> /\ Len(WireFrames(tx).bodies) = 1
    /\ pc \in {"method", "params", "send", "done"} => flushes = Len(resps)
    /\ (consumed # <<>> \/ spins > 0) => flushes > 0

C9_Witness == pc = "body" /\ flushes = 2 /\ Len(resps) = 1 /\ consumed # <<>>

\* C10: a body of exactly the declared length that is not JSON text makes
\* decode fail with an error that carries the raw body; no value is returned.
C10_MalformedBodyFails ==
    \A b \in NonJsonBodies :
        (CallEnded /\ StartsWith(Faced, TextDecode(FrameOf(b))))
            => /\ pc = "crashed"
               /\ errDoc = TextDecode(b)

\* Header lines the client does not know, before or behind the length line.
HeaderPaddings == { <<>>, UnknownLine, LengthyLine, UnknownLine \o LengthyLine }
PlainBodies == { EmptyObject, ResultBody, IdBody }
\* Each padded frame as the client's text stream holds it, with its body's value.
PaddedCases ==
    { [text |-> TextDecode(PaddedFrame(before, after, b)),
       value |-> Loads(TextDecode(b)).v] :
          before \in HeaderPaddings, after \in HeaderPaddings, b \in PlainBodies }

\* C11: header lines the client does not recognise, before or behind a valid
\* Content-Length line, are ignored: a call that faced such a block returns the
\* value of the body, as it does for the block with the Content-Length line
\* alone (the case of no padding), and has read the frame and no more.
C11_HeaderTolerance ==
    \A c \in PaddedCases :
        (CallEnded /\ StartsWith(Faced, c.text))
            => /\ pc # "crashed"
               /\ LastResp = c.value
               /\ consumed = c.text

\* A call returned {} from a frame with an unknown line on each side of the
\* length line, and left the text behind the frame unread.
C11_Witness ==
    /\ pc = "method" /\ flushes > 0
    /\ consumed = TextDecode(PaddedFrame(UnknownLine, LengthyLine, EmptyObject))
    /\ LastResp = JObj(<<>>)
    /\ rx # <<>>

ParamsKey == <<"p", "a", "r", "a", "m", "s">>
\* The params of the request the child received last.
SentParams == ObjGet(Loads(TextDecode(WireFrames(tx).bodies[1])).v, ParamsKey)

\* C12: an empty parameter string gives a request with params {} and that is
\* what the child receives; a parameter string json.loads rejects is reported
\* (one more warning), the step writes nothing to the child and takes no id, and
\* the loop is back at the method prompt.
C12_ParamsInput ==
    /\ []((InCall /\ params_str = <<>>) => SentParams = JObj(<<>>))
    /\ [][(pc = "params" /\ pc' # "params") =>
             IF params_str' = <<>>
             THEN pc' = "send" /\ ObjGet(request', ParamsKey) = JObj(<<>>)
             ELSE IF ~Loads(params_str').ok
             THEN /\ pc' = "method"
                  /\ warned' = warned + 1
                  /\ UNCHANGED <<clientIO, req_id, request>>
             ELSE pc' = "send"]_vars

\* After a rejected parameter string, a request made with the empty parameter
\* string has reached the child with params {}.
C12_Witness ==
    /\ warned > 0
    /\ pc = "hdr" /\ params_str = <<>>
    /\ flushes = 1
    /\ SentParams = JObj(<<>>)

\* The sentinel as the user may type it, stripped.
SentinelTexts ==
    { <<"e", "x", "i", "t">>, <<"Q", "u", "i", "t">>, <<"E", "X", "I", "T">> }

\* C13: once 'exit' or 'quit' was typed at the method prompt, in any letter
\* case, the loop has ended and the child was terminated; from then on nothing
\* is written to the child and the parameter prompt is not reached again.
C13_ExitTerminates ==
    /\ [](method \in SentinelTexts => (pc = "done" /\ terminated))
    /\ [][pc = "done" =>
             (pc' = "done" /\ UNCHANGED <<clientIO, params_str, req_id, terminated>>)]_vars

\* The user typed "Quit " after a request was answered: the loop has ended and
\* the child was terminated.
C13_Witness ==
    /\ pc = "done" /\ terminated
    /\ method = <<"Q", "u", "i", "t">>
    /\ flushes > 0 /\ Len(resps) = flushes

\* The JSON value {"result": []}.
ResultValue == JObj(<< <<<<"r", "e", "s", "u", "l", "t">>, JArr(<<>>)>> >>)

\* C14, as written: a call that faced 'Content-Length: 14', a blank line and
\* the body {"result":[]} returns the value {"result": []}.
C14_ScenarioAsWritten ==
    (CallEnded /\ StartsWith(Faced, TextDecode(ScenarioReply)))
        => (pc # "crashed" /\ LastResp = ResultValue)

\* C14, amended: a call that faced 'Content-Length: 13', a blank line and the
\* body {"result":[]} (13 bytes) returns the value {"result": []}, having read
\* the body and no more.
C14_ScenarioLength13 ==
    (CallEnded /\ StartsWith(Faced, TextDecode(FrameOf(ResultBody))))
        => /\ pc # "crashed"
           /\ LastResp = ResultValue
           /\ body = TextDecode(ResultBody)

\* A call returned {"result": []} from the 13-byte frame with more text behind it.
C14_Witness ==
    /\ pc = "method" /\ flushes > 0
    /\ consumed = TextDecode(FrameOf(ResultBody))
    /\ LastResp = ResultValue
    /\ rx # <<>>

\* Header blocks with two Content-Length lines, the first one wrong (too small
\* or too large), the second one the body's length.
TwoLengthCases ==
    { [text |-> TextDecode(LengthLine(first) \o FrameOf(b)),
       length |-> Len(b),
       body |-> TextDecode(b)] : first \in {1, 4}, b \in PlainBodies }

\* C15: of two Content-Length lines in a header block the last one before the
\* blank line gives the body length: the call has that length stored, has read
\* a body of that length and returns its value.
C15_LastLengthWins ==
    \A c \in TwoLengthCases :
        (CallEnded /\ StartsWith(Faced, c.text))
            => /\ content_length = Some(c.length)
               /\ body = c.body
               /\ pc # "crashed"
               /\ LastResp = Loads(c.body).v

\* A call faced the lengths 4 and 2, read the two characters {} and left the
\* text behind them unread.
C15_Witness ==
    /\ pc = "method" /\ flushes > 0
    /\ consumed = TextDecode(TwoLengthsReply)
    /\ content_length = Some(2)
    /\ LastResp = JObj(<<>>)
    /\ Len(rx) >= 2

\* A call faced the lengths 1 and 13 and read the body of 13 characters.
C15_WitnessLarger ==
    /\ pc = "method" /\ flushes > 0
    /\ consumed = TextDecode(LengthLine(1) \o FrameOf(ResultBody))
    /\ LastResp = ResultValue

IdKey == <<"i", "d">>
\* Well-formed response bodies: without an id, with the id 1, and with the id 1
\* and a character of two bytes.
ResponseBodies == { ResultBody, IdBody, WideIdBody }

\* C16: a call that faced a well-formed response frame returns exactly the
\* decoded body, whether the body's id is the request's, another one or absent.
C16_Verbatim ==
    \A b \in ResponseBodies :
        (CallEnded /\ StartsWith(Faced, TextDecode(FrameOf(b))))
            => (pc # "crashed" /\ LastResp = Loads(TextDecode(b)).v)

\* The same for the bodies of one-byte characters only.
C16_VerbatimOneByte ==
    \A b \in { ResultBody, IdBody } :
        (CallEnded /\ StartsWith(Faced, TextDecode(FrameOf(b))))
            => (pc # "crashed" /\ LastResp = Loads(TextDecode(b)).v)

\* The second call (id 2) returned the body with the id 1.
C16_OtherIdReturned ==
    /\ pc = "method" /\ flushes = 2
    /\ ObjGet(request, IdKey) = JInt(2)
    /\ consumed = TextDecode(FrameOf(IdBody))
    /\ LastResp = JObj(<< <<IdKey, JInt(1)>> >>)

\* C17: at the method prompt the counter is 1 plus the number of request frames
\* the child has received, and the k-th of those frames carries the id k; the
\* step that rejects a parameter string changes neither the counter nor
\* anything written to the child.
C17_GapFreeIds ==
    /\ [](pc = "method" =>
            /\ req_id = 1 + Len(sentIds)
            /\ flushes = Len(sentIds)
            /\ \A k \in 1..Len(sentIds) : sentIds[k] = k)
    /\ [][(pc = "params" /\ pc' = "method") => UNCHANGED <<req_id, clientIO>>]_vars

\* Back at the prompt after two requests and a rejected parameter string.
C17_Witness ==
    /\ pc = "method"
    /\ warned > 0
    /\ sentIds = <<1, 2>>
    /\ req_id = 3

\* The text has, at the start of a line, a Content-Length line with the value n.
HasLengthLine(text, n) ==
    LET line == TextDecode(LengthLine(n))
    IN  \E i \in 1..Len(text) :
            /\ i = 1 \/ text[i - 1] = "\n"
            /\ StartsWith(Drop(text, i - 1), line)

\* C18: the body length is the call's own: a call that has read nothing yet has
\* no length, and a length a call holds was given by a Content-Length line
\* that this call has read, never by a line of an earlier response.
C18_LengthPerCall ==
    /\ (pc = "hdr" /\ consumed = <<>>) => content_length = None
    /\ content_length # None => HasLengthLine(consumed, content_length[1])

\* The first call was answered by a frame with a length; the second call has
\* read a header block that is a blank line only, and has no length.
C18_Witness ==
    /\ flushes = 2 /\ Len(resps) = 1
    /\ pc = "body"
    /\ consumed = <<"\n">>
    /\ content_length = None

=============================================================================
